---- MODULE Spec2Model ----
(***************************************************************************)
(* Model of zebra/__main__.py: the CameraControl client.  One top-level    *)
(* call (send_command, trigger or acquire_image) runs at a time; the model *)
(* steps through its blocking socket operations, with the peer's and the   *)
(* filesystem's behaviour chosen nondeterministically at each of them.     *)
(***************************************************************************)
EXTENDS Integers, Sequences, FiniteSets, TLC

(* ------------------------------ bounds -------------------------------- *)

\* Longest response (in bytes) whose content the model records.
MaxResp == 8

\* Number of distinct second-resolution timestamps datetime.now() can give.
MaxTime == 1

(* ------------------------- endpoint, commands -------------------------- *)

Host == "192.168.1.200"

ControlPort == 107

ResultsPort == 25250

\* Faulty variant: the trigger string without its line terminator.
TriggerCommandBare == <<"T", "R", "I", "G", "G", "E", "R">>

\* "TRIGGER\r\n"
TriggerCommand == <<"T", "R", "I", "G", "G", "E", "R", "\r", "\n">>

\* "getresultimage\r\n"
GetResultImageCommand ==
    <<"g", "e", "t", "r", "e", "s", "u", "l", "t", "i", "m", "a", "g", "e", "\r", "\n">>

\* Commands a caller hands to send_command directly.
Commands == {TriggerCommand, GetResultImageCommand, <<"R", "\r", "\n">>}

\* ord() of the characters the commands are written in.
AsciiCode(c) ==
    CASE c = "\n" -> 10  [] c = "\r" -> 13  [] c = "E" -> 69  [] c = "G" -> 71
      [] c = "I" -> 73   [] c = "R" -> 82   [] c = "T" -> 84  [] c = "a" -> 97
      [] c = "e" -> 101  [] c = "g" -> 103  [] c = "i" -> 105 [] c = "l" -> 108
      [] c = "m" -> 109  [] c = "r" -> 114  [] c = "s" -> 115 [] c = "t" -> 116
      [] c = "u" -> 117

\* command.encode("utf-8"): one byte per ASCII character.
Encode(command) == [i \in 1..Len(command) |-> AsciiCode(command[i])]

(* --------------------------- image extraction -------------------------- *)

\* b"/9j/"
Marker == <<"/", "9", "j", "/">>

\* Whether sub occurs in s at index i.
MatchAt(s, sub, i) ==
    /\ i >= 1
    /\ i + Len(sub) - 1 <= Len(s)
    /\ \A k \in 1..Len(sub) : s[i + k - 1] = sub[k]

\* b"/9j/" in response
Contains(s, sub) == \E i \in 1..Len(s) : MatchAt(s, sub, i)

\* Index of the first occurrence of sub in s at or after from; 0 when none.
Find(s, sub, from) ==
    IF \E i \in from..Len(s) : MatchAt(s, sub, i)
    THEN CHOOSE i \in from..Len(s) :
            /\ MatchAt(s, sub, i)
            /\ \A j \in from..(i - 1) : ~MatchAt(s, sub, j)
    ELSE 0

\* bytes.split(sep): the pieces between successive, non-overlapping
\* occurrences of sep, scanning left to right.
RECURSIVE SplitFrom(_, _, _)
SplitFrom(s, sep, from) ==
    LET i == Find(s, sep, from) IN
    IF i = 0
    THEN <<SubSeq(s, from, Len(s))>>
    ELSE <<SubSeq(s, from, i - 1)>> \o SplitFrom(s, sep, i + Len(sep))

Split(s, sep) == SplitFrom(s, sep, 1)

\* Value of a character of the base64 alphabet; 64 for any other character.
B64Value(c) ==
    CASE c = "A" -> 0 [] c = "j" -> 35 [] c = "9" -> 61 [] c = "/" -> 63
      [] OTHER -> 64

\* What B64Decode gives for input base64.b64decode raises binascii.Error on.
DecodeError == <<-1>>

\* binascii.a2b_base64 in its default (non-strict) mode, as base64.b64decode
\* calls it: characters outside the alphabet are skipped, a complete pad
\* sequence ends the input, and leftover characters of an unfinished quad
\* are an error.
RECURSIVE A2B(_, _, _, _, _, _)
A2B(s, i, quad_pos, leftchar, pads, out) ==
    IF i > Len(s)
    THEN IF quad_pos # 0 THEN DecodeError ELSE out
    ELSE IF s[i] = "="
    THEN IF quad_pos >= 2 /\ quad_pos + pads + 1 >= 4
         THEN out
         ELSE A2B(s, i + 1, quad_pos, leftchar,
                  IF quad_pos >= 2 THEN pads + 1 ELSE pads, out)
    ELSE LET v == B64Value(s[i]) IN
         IF v >= 64
         THEN A2B(s, i + 1, quad_pos, leftchar, pads, out)
         ELSE CASE quad_pos = 0 -> A2B(s, i + 1, 1, v, 0, out)
                [] quad_pos = 1 ->
                     A2B(s, i + 1, 2, v % 16, 0,
                         Append(out, leftchar * 4 + (v \div 16)))
                [] quad_pos = 2 ->
                     A2B(s, i + 1, 3, v % 4, 0,
                         Append(out, leftchar * 16 + (v \div 4)))
                [] quad_pos = 3 ->
                     A2B(s, i + 1, 0, 0, 0, Append(out, leftchar * 64 + v))

B64Decode(s) == A2B(s, 1, 0, 0, 0, <<>>)

\* The argument _process_image_data hands to base64.b64decode:
\* b"/9j/" + response.split(b"/9j/")[1].
Base64Data(response) == Marker \o Split(response, Marker)[2]

\* Faulty variant: the response is processed without looking for the marker.
HasImageAlways(response) == TRUE

\* if b"/9j/" in response
HasImage(response) == Contains(response, Marker)

(* ------------------------------ exceptions ----------------------------- *)

NoExc == [type |-> "", context |-> "", host |-> "", port |-> 0, cause |-> ""]

\* An exception that travels as it was raised, with its own message only.
Bare(e) == [type |-> e, context |-> "", host |-> "", port |-> 0, cause |-> e]

\* What socket.create_connection can raise.
ConnectErrors == {"socket.timeout", "ConnectionRefusedError", "OSError"}

\* What sendall and recv can raise on a connected socket.
StreamErrors == {"socket.timeout", "ConnectionResetError"}

\* except (socket.timeout, ConnectionRefusedError) in _send_to_socket
SendCaught(e) == e \in {"socket.timeout", "ConnectionRefusedError"}

\* except (socket.timeout, ConnectionRefusedError) in _receive_from_socket
ReceiveCaught(e) == e \in {"socket.timeout", "ConnectionRefusedError"}

\* Faulty variant: the handler of _send_to_socket does not raise.
SendToSocketSwallows(host, port, e) == NoExc

\* The exception that leaves _send_to_socket when e is raised inside it.
SendToSocketRaises(host, port, e) ==
    IF SendCaught(e)
    THEN [type |-> "ConnectionError", context |-> "Failed to send data to",
          host |-> host, port |-> port, cause |-> e]
    ELSE Bare(e)

\* The exception that leaves _receive_from_socket when e is raised inside it.
ReceiveFromSocketRaises(host, port, e) ==
    IF ReceiveCaught(e)
    THEN [type |-> "ConnectionError", context |-> "Failed to receive data from",
          host |-> host, port |-> port, cause |-> e]
    ELSE Bare(e)

\* Faulty variant: except IOError.
ProcessCaughtIOError(e) == e = "OSError"

\* Faulty variant: except ValueError (which binascii.Error is).
ProcessCaughtValueError(e) == e = "binascii.Error"

\* except Exception in _process_image_data
ProcessCaught(e) == e \in {"IndexError", "binascii.Error", "OSError"}

(* -------------------------------- state -------------------------------- *)

VARIABLES
    pc,        \* where the running call is; "idle" between calls
    op,        \* the public method the caller invoked
    cmd,       \* the command of the send_command in progress
    socks,     \* ports of the sockets that are open
    readOn,    \* ports recv has been called on during the call
    response,  \* bytes accumulated by _receive_from_socket
    log,       \* what the call has done so far, in order
    result,    \* how the last call ended
    written    \* files the call has created or truncated: timestamp -> content

vars == <<pc, op, cmd, socks, readOn, response, log, result, written>>

\* Non-empty chunks sock.recv can return.
Chunks ==
    {Marker, <<"/", "9">>, <<"j", "/">>, <<"A">>, <<"=", "=">>, <<"\r", "\n">>}

Timestamps == 1..MaxTime

NoFile == <<-2>>

NoFiles == [t \in Timestamps |-> NoFile]

\* Value of a call that returns None.
None == <<"None">>

Event(ev, port, data) == [ev |-> ev, port |-> port, data |-> data]

\* How a call of socket.create_connection is logged.
ConnectEvent(outcome) == IF outcome = "ok" THEN "connect" ELSE "connect_failed"

NoResult == [kind |-> "none", value |-> None, exc |-> NoExc]

Returned(value) == [kind |-> "returned", value |-> value, exc |-> NoExc]

Raised(exc) == [kind |-> "raised", value |-> None, exc |-> exc]

\* self.control_port, the port send_command hands to _send_to_socket.
SendPort == ControlPort

\* Faulty variant: send_command receives from the control port.
ReceivePortIsControl == ControlPort

\* self.results_port, the port send_command hands to _receive_from_socket.
ReceivePort == ResultsPort

\* Faulty variant: the socket is not closed when the block is left.
WithExitLeaks(open, port) == open

\* Leaving a "with socket.create_connection(...) as sock" block.
WithExit(open, port) == open \ {port}

Init ==
    /\ pc = "idle"
    /\ op = "none"
    /\ cmd = <<>>
    /\ socks = {}
    /\ readOn = {}
    /\ response = <<>>
    /\ log = <<>>
    /\ result = NoResult
    /\ written = NoFiles

(* ------------------------------ the calls ------------------------------ *)

\* A caller invokes send_command(command).
CallSendCommand ==
    /\ pc = "idle"
    /\ \E command \in Commands :
        /\ cmd' = command
        /\ log' = <<Event("command", 0, Encode(command))>>
    /\ pc' = "control_connect"
    /\ op' = "send_command"
    /\ readOn' = {}
    /\ response' = <<>>
    /\ result' = NoResult
    /\ written' = NoFiles
    /\ UNCHANGED socks

\* A caller invokes trigger(), which calls send_command("TRIGGER\r\n").
CallTrigger ==
    /\ pc = "idle"
    /\ cmd' = TriggerCommand
    /\ log' = <<Event("command", 0, Encode(TriggerCommand))>>
    /\ pc' = "control_connect"
    /\ op' = "trigger"
    /\ readOn' = {}
    /\ response' = <<>>
    /\ result' = NoResult
    /\ written' = NoFiles
    /\ UNCHANGED socks

\* A caller invokes acquire_image(), which first calls trigger().
CallAcquireImage ==
    /\ pc = "idle"
    /\ cmd' = TriggerCommand
    /\ log' = <<Event("command", 0, Encode(TriggerCommand))>>
    /\ pc' = "control_connect"
    /\ op' = "acquire_image"
    /\ readOn' = {}
    /\ response' = <<>>
    /\ result' = NoResult
    /\ written' = NoFiles
    /\ UNCHANGED socks

(* ---------------------------- send_command ----------------------------- *)

\* An exception leaves the call: nothing between the socket helpers and the
\* caller handles one.
Propagate(exc) ==
    /\ pc' = "idle"
    /\ result' = Raised(exc)

\* _send_to_socket: socket.create_connection((host, port), timeout=5).
CreateControlConnection ==
    /\ pc = "control_connect"
    /\ \E outcome \in {"ok"} \cup ConnectErrors :
        /\ log' = Append(log, Event(ConnectEvent(outcome), SendPort, <<>>))
        /\ IF outcome = "ok"
           THEN /\ socks' = socks \cup {SendPort}
                /\ pc' = "control_sendall"
                /\ UNCHANGED result
           ELSE LET exc == SendToSocketRaises(Host, SendPort, outcome) IN
                /\ UNCHANGED socks
                /\ IF exc = NoExc
                   THEN pc' = "results_connect" /\ UNCHANGED result
                   ELSE Propagate(exc)
    /\ UNCHANGED <<op, cmd, readOn, response, written>>

\* _send_to_socket: sock.sendall(data), then the with block is left.
SendAll ==
    /\ pc = "control_sendall"
    /\ socks' = WithExit(socks, SendPort)
    /\ \E outcome \in {"ok"} \cup StreamErrors :
        IF outcome = "ok"
        THEN /\ log' = log \o <<Event("sendall", SendPort, Encode(cmd)),
                                Event("close", SendPort, <<>>)>>
             /\ pc' = "results_connect"
             /\ UNCHANGED result
        ELSE LET exc == SendToSocketRaises(Host, SendPort, outcome) IN
             /\ log' = Append(log, Event("close", SendPort, <<>>))
             /\ IF exc = NoExc
                THEN pc' = "results_connect" /\ UNCHANGED result
                ELSE Propagate(exc)
    /\ UNCHANGED <<op, cmd, readOn, response, written>>

\* _receive_from_socket: socket.create_connection((host, port), timeout=5)
\* and response = b"".
CreateResultsConnection ==
    /\ pc = "results_connect"
    /\ \E outcome \in {"ok"} \cup ConnectErrors :
        /\ log' = Append(log, Event(ConnectEvent(outcome), ReceivePort, <<>>))
        /\ IF outcome = "ok"
           THEN /\ socks' = socks \cup {ReceivePort}
                /\ pc' = "results_recv"
                /\ UNCHANGED result
           ELSE /\ UNCHANGED socks
                /\ Propagate(ReceiveFromSocketRaises(Host, ReceivePort, outcome))
    /\ response' = <<>>
    /\ UNCHANGED <<op, cmd, readOn, written>>

\* sock.recv(4096) returns a non-empty chunk: response += chunk.
RecvChunk ==
    /\ pc = "results_recv"
    /\ \E chunk \in Chunks :
        /\ Len(response) + Len(chunk) <= MaxResp
        /\ response' = response \o chunk
    /\ readOn' = readOn \cup {ReceivePort}
    /\ UNCHANGED <<pc, op, cmd, socks, log, result, written>>

\* sock.recv(4096) returns b"": break, leave the with block, return response.
RecvEnd ==
    /\ pc = "results_recv"
    /\ readOn' = readOn \cup {ReceivePort}
    /\ socks' = WithExit(socks, ReceivePort)
    /\ log' = log \o <<Event("eof", ReceivePort, <<>>),
                       Event("close", ReceivePort, <<>>)>>
    /\ pc' = "send_returned"
    /\ UNCHANGED <<op, cmd, response, result, written>>

\* sock.recv(4096) raises: the with block is left and the handler runs.
RecvFails ==
    /\ pc = "results_recv"
    /\ readOn' = readOn \cup {ReceivePort}
    /\ socks' = WithExit(socks, ReceivePort)
    /\ log' = Append(log, Event("close", ReceivePort, <<>>))
    /\ \E e \in StreamErrors :
        Propagate(ReceiveFromSocketRaises(Host, ReceivePort, e))
    /\ UNCHANGED <<op, cmd, response, written>>

\* send_command returns the response to the caller that invoked it.
SendCommandReturn ==
    /\ pc = "send_returned"
    /\ op = "send_command"
    /\ pc' = "idle"
    /\ result' = Returned(response)
    /\ UNCHANGED <<op, cmd, socks, readOn, response, log, written>>

\* trigger discards what send_command returned.
TriggerReturn ==
    /\ pc = "send_returned"
    /\ op = "trigger"
    /\ pc' = "idle"
    /\ result' = Returned(None)
    /\ response' = <<>>
    /\ UNCHANGED <<op, cmd, socks, readOn, log, written>>

(* ---------------------------- acquire_image ---------------------------- *)

\* What can happen to open(image_path, "wb") and f.write(image_data): all
\* written, the file not opened, or the file opened (so created or
\* truncated) and only the first n bytes written.
SaveOutcomes(image_data) ==
    {[status |-> "ok", n |-> Len(image_data)], [status |-> "open_failed", n |-> 0]}
        \cup {[status |-> "write_failed", n |-> k] : k \in 0..(Len(image_data) - 1)}

\* save_image_data: the files of the images directory the call has touched,
\* afterwards.
SaveImageData(dir, image_data, image_path, outcome) ==
    IF outcome.status = "open_failed"
    THEN dir
    ELSE [dir EXCEPT ![image_path] = SubSeq(image_data, 1, outcome.n)]

\* acquire_image, after trigger() has returned: send_command("getresultimage\r\n").
AcquireRequestImage ==
    /\ pc = "send_returned"
    /\ op = "acquire_image"
    /\ cmd = TriggerCommand
    /\ cmd' = GetResultImageCommand
    /\ log' = Append(log, Event("command", 0, Encode(GetResultImageCommand)))
    /\ pc' = "control_connect"
    /\ response' = <<>>
    /\ UNCHANGED <<op, socks, readOn, result, written>>

\* acquire_image, the response holds no marker: a warning, and the call returns.
AcquireNoImage ==
    /\ pc = "send_returned"
    /\ op = "acquire_image"
    /\ cmd = GetResultImageCommand
    /\ ~HasImage(response)
    /\ log' = Append(log, Event("logger.warning", 0, <<>>))
    /\ pc' = "idle"
    /\ result' = Returned(None)
    /\ UNCHANGED <<op, cmd, socks, readOn, response, written>>

\* Exception e is raised inside the try block of _process_image_data, after
\* the steps logged in done.
ProcessRaises(e, done) ==
    IF ProcessCaught(e)
    THEN /\ log' = Append(done, Event("logger.error", 0, <<e>>))
         /\ pc' = "idle"
         /\ result' = Returned(None)
    ELSE /\ log' = done
         /\ Propagate(Bare(e))

\* acquire_image, the response holds the marker: _process_image_data splits,
\* decodes and saves, and the call returns.
ProcessImageData ==
    /\ pc = "send_returned"
    /\ op = "acquire_image"
    /\ cmd = GetResultImageCommand
    /\ HasImage(response)
    /\ IF Len(Split(response, Marker)) < 2
       THEN ProcessRaises("IndexError", log) /\ UNCHANGED written
       ELSE LET base64_data == Base64Data(response)
                image_data == B64Decode(base64_data)
                decoded == Append(log, Event("b64decode", 0, base64_data))
            IN  IF image_data = DecodeError
                THEN ProcessRaises("binascii.Error", decoded) /\ UNCHANGED written
                ELSE \E now \in Timestamps, outcome \in SaveOutcomes(image_data) :
                        LET saved == Append(decoded,
                                            Event(outcome.status, now, image_data))
                        IN  /\ written' = SaveImageData(written, image_data, now, outcome)
                            /\ IF outcome.status = "ok"
                               THEN /\ log' = Append(saved, Event("logger.info", now, <<>>))
                                    /\ pc' = "idle"
                                    /\ result' = Returned(None)
                               ELSE ProcessRaises("OSError", saved)
    /\ UNCHANGED <<op, cmd, socks, readOn, response>>

(* ---------------------------- specification ---------------------------- *)

Next ==
    \/ CallSendCommand
    \/ CallTrigger
    \/ CallAcquireImage
    \/ CreateControlConnection
    \/ SendAll
    \/ CreateResultsConnection
    \/ RecvChunk
    \/ RecvEnd
    \/ RecvFails
    \/ SendCommandReturn
    \/ TriggerReturn
    \/ AcquireRequestImage
    \/ AcquireNoImage
    \/ ProcessImageData

Spec == Init /\ [][Next]_vars

(* ----------------------- a peer that never stops ----------------------- *)

\* The last n bytes of s.
LastBytes(s, n) == IF Len(s) <= n THEN s ELSE SubSeq(s, Len(s) - n + 1, Len(s))

\* sock.recv(4096) returns a non-empty chunk: response += chunk, with no
\* limit on how often.  Of a response longer than MaxResp only the last
\* MaxResp bytes are kept, so that an endless stream has finitely many states.
RecvStream ==
    /\ pc = "results_recv"
    /\ \E chunk \in Chunks :
        response' = LastBytes(response \o chunk, MaxResp)
    /\ readOn' = readOn \cup {ReceivePort}
    /\ UNCHANGED <<pc, op, cmd, socks, log, result, written>>

\* The steps of a send_command call once it has been invoked.
LiveStep ==
    \/ CreateControlConnection
    \/ SendAll
    \/ CreateResultsConnection
    \/ RecvStream
    \/ RecvEnd
    \/ RecvFails
    \/ SendCommandReturn

LiveNext == CallSendCommand \/ LiveStep

\* send_command calls against a peer free to deliver chunks for ever.  Every
\* blocking socket operation returns or raises (timeout=5), so a call in
\* progress always takes its next step.
LiveSpec == Init /\ [][LiveNext]_vars /\ WF_vars(LiveStep)

(* ------------------------- reading the log ----------------------------- *)

\* Indices of the events ev on port in l.
Where(l, ev, port) == {i \in 1..Len(l) : l[i].ev = ev /\ l[i].port = port}

Count(l, ev, port) == Cardinality(Where(l, ev, port))

\* Calls of socket.create_connection on port recorded in l.
Attempts(l, port) == Count(l, "connect", port) + Count(l, "connect_failed", port)

\* What each event of l is and on which port, without its data.
Shape(l) == [i \in 1..Len(l) |-> <<l[i].ev, l[i].port>>]

\* Index of the event that starts the send_command in progress (or the last
\* one made); 0 before any.
LastCommand ==
    IF Where(log, "command", 0) = {}
    THEN 0
    ELSE CHOOSE i \in Where(log, "command", 0) :
            \A j \in Where(log, "command", 0) : j <= i

\* What that send_command has done.
SendLog == SubSeq(log, LastCommand + 1, Len(log))

\* A round trip that succeeded: one connection to the control port, the
\* command written on it, closed; then one to the results port, read to end
\* of stream, closed.
RoundTripShape ==
    <<<<"connect", 107>>, <<"sendall", 107>>, <<"close", 107>>,
      <<"connect", 25250>>, <<"eof", 25250>>, <<"close", 25250>>>>

\* The send_command round trips of the call that ran to the end of stream.
RoundTripsDone == Count(log, "eof", 25250)

\* b"TRIGGER\r\n"
TriggerBytes == <<84, 82, 73, 71, 71, 69, 82, 13, 10>>

\* b"getresultimage\r\n"
GetResultImageBytes ==
    <<103, 101, 116, 114, 101, 115, 117, 108, 116, 105, 109, 97, 103, 101, 13, 10>>

\* The byte strings written with sendall during the call, in order.
RECURSIVE Sent(_)
Sent(l) ==
    IF l = <<>>
    THEN <<>>
    ELSE IF Head(l).ev = "sendall"
         THEN <<Head(l).data>> \o Sent(Tail(l))
         ELSE Sent(Tail(l))

\* The events of the log that touch the images directory or decode.
Saves == {i \in 1..Len(log) : log[i].ev \in {"ok", "open_failed", "write_failed"}}

Decodes == {i \in 1..Len(log) : log[i].ev = "b64decode"}

Logged(level) == {i \in 1..Len(log) : log[i].ev = level}

AcquireEnded == op = "acquire_image" /\ pc = "idle" /\ result.kind # "none"

(* -------------------------------- claims ------------------------------- *)

\* C1: whenever send_command has returned, it has opened exactly one
\* connection to the control port and then exactly one to the results port,
\* the control connection was closed before the results connection was
\* opened, the command was written on the control connection and nothing was
\* read on it, and no socket is open.
C1_SendOpensControlThenResults ==
    pc = "send_returned" =>
        /\ Shape(SendLog) = RoundTripShape
        /\ SendLog[2].data = log[LastCommand].data
        /\ 107 \notin readOn
        /\ socks = {}

C1_Witness ==
    /\ pc = "idle"
    /\ op = "send_command"
    /\ result.kind = "returned"
    /\ Len(result.value) = MaxResp
    /\ Shape(SendLog) = RoundTripShape

\* C2: between calls no socket is open, however the last call ended
\* (returned, or failed at connect, sendall or recv with any exception), and
\* during a call at most the socket of the current step is open.
C2_NoSocketOutlivesItsCall ==
    /\ pc = "idle" => socks = {}
    /\ pc \in {"control_connect", "results_connect", "send_returned"} => socks = {}
    /\ pc = "control_sendall" => socks = {107}
    /\ pc = "results_recv" => socks = {25250}

C2_Witness ==
    /\ pc = "idle"
    /\ result.kind = "raised"
    /\ result.exc.type = "ConnectionResetError"
    /\ Count(log, "connect", 25250) = 1
    /\ socks = {}

\* C3 (as claimed): acquire_image never ends by raising.
C3_AcquireNeverRaises == op = "acquire_image" => result.kind # "raised"

\* C3 (amended): acquire_image returns normally whenever both of its round
\* trips succeeded, whatever the marker scan, the decode and the file write
\* do; it raises exactly when one of the two round trips failed.
C3_AcquireRaisesOnlyFromSend ==
    AcquireEnded =>
        /\ RoundTripsDone = 2 => result = Returned(None)
        /\ RoundTripsDone < 2 =>
              /\ result.kind = "raised"
              /\ Decodes = {}
              /\ Saves = {}

C3_Witness ==
    /\ AcquireEnded
    /\ RoundTripsDone = 2
    /\ result = Returned(None)
    /\ \E i \in Logged("logger.error") : log[i].data = <<"binascii.Error">>

\* C4 (as claimed): what acquire_image base64-decodes is the response from
\* the first occurrence of the marker to the end of the response.
C4_DecodesFromFirstMarkerToEnd ==
    \A i \in Decodes :
        log[i].data = SubSeq(response, Find(response, Marker, 1), Len(response))

\* C5 (as claimed): a call that failed by timeout, refusal or reset at a
\* socket step ended with a ConnectionError naming the host, the port of the
\* failing channel and the cause.
C5_SocketFailuresAreWrapped ==
    (/\ pc = "idle"
     /\ result.kind = "raised"
     /\ result.exc.cause \in
            {"socket.timeout", "ConnectionRefusedError", "ConnectionResetError"})
        => /\ result.exc.type = "ConnectionError"
           /\ result.exc.host = Host
           /\ result.exc.port = log[Len(log)].port
           /\ result.exc.context # ""

\* C6 (as claimed): when the marker is present and the decode succeeds but
\* the file cannot be opened or written, acquire_image raises.
C6_WriteFailurePropagates ==
    (AcquireEnded /\ \E i \in Saves : log[i].ev # "ok") => result.kind = "raised"

\* C6 (amended): when the marker is present and the decode succeeds but the
\* file cannot be opened or written, the failure is caught in
\* _process_image_data and logged as an error, and acquire_image returns
\* normally.
C6_WriteFailureIsSwallowed ==
    (AcquireEnded /\ \E i \in Saves : log[i].ev # "ok") =>
        /\ result = Returned(None)
        /\ log[Len(log)] = Event("logger.error", 0, <<"OSError">>)
        /\ Logged("logger.info") = {}

C6_Witness ==
    /\ AcquireEnded
    /\ result = Returned(None)
    /\ \E i \in Saves : log[i].ev = "write_failed" /\ written[log[i].port] # NoFile
    /\ Decodes # {}

\* C7 (as claimed): every send_command call that has been invoked ends.
C7_SendEnds == (pc # "idle") ~> (pc = "idle")

\* C8: acquire_image sends TRIGGER\r\n first and getresultimage\r\n second;
\* the second command is written only after the trigger round trip ran to
\* the end of stream and its results connection was closed; and if the
\* trigger round trip fails, the second command is never sent and no file is
\* touched.
C8_TriggerThenGetResultImage ==
    op = "acquire_image" =>
        /\ Sent(log) \in {<<>>, <<TriggerBytes>>, <<TriggerBytes, GetResultImageBytes>>}
        /\ Len(Sent(log)) = 2 => SubSeq(Shape(log), 2, 7) = RoundTripShape
        /\ (AcquireEnded /\ result.kind = "returned") => Len(Sent(log)) = 2
        /\ (AcquireEnded /\ RoundTripsDone = 0) =>
              /\ Len(Sent(log)) <= 1
              /\ Count(log, "command", 0) = 1
              /\ written = NoFiles
              /\ Saves = {}

C8_Witness ==
    /\ AcquireEnded
    /\ Sent(log) = <<TriggerBytes, GetResultImageBytes>>
    /\ \E i \in Saves : log[i].ev = "ok" /\ written[log[i].port] = log[i].data

\* C9: when both round trips of acquire_image succeeded and the response to
\* getresultimage holds no marker, acquire_image logs a warning, attempts no
\* decode, touches no file and returns normally.
C9_NoMarkerNoFile ==
    (AcquireEnded /\ RoundTripsDone = 2 /\ ~Contains(response, Marker)) =>
        /\ result = Returned(None)
        /\ Decodes = {}
        /\ Saves = {}
        /\ written = NoFiles
        /\ log[Len(log)].ev = "logger.warning"
        /\ Logged("logger.error") = {}

C9_Witness ==
    /\ AcquireEnded
    /\ RoundTripsDone = 2
    /\ Len(response) = MaxResp
    /\ ~Contains(response, Marker)
    /\ Logged("logger.warning") # {}

\* C10: within one send_command, socket.create_connection is called at most
\* once per port and the command is written at most once; a connection to
\* the results port is attempted only after the command was written in full
\* on the control connection; and a call that raised has ended.
C10_NoRetry ==
    /\ Attempts(SendLog, 107) <= 1
    /\ Attempts(SendLog, 25250) <= 1
    /\ Count(SendLog, "sendall", 107) <= 1
    /\ Attempts(SendLog, 25250) = 1 =>
          /\ Count(SendLog, "sendall", 107) = 1
          /\ Count(SendLog, "connect_failed", 107) = 0
    /\ Count(SendLog, "connect_failed", 107) + Count(SendLog, "connect_failed", 25250) > 0
          => /\ pc = "idle"
             /\ result.kind = "raised"
             /\ log[Len(log)].ev = "connect_failed"

C10_Witness ==
    /\ pc = "idle"
    /\ result.kind = "raised"
    /\ Count(SendLog, "connect_failed", 107) = 1
    /\ Attempts(SendLog, 25250) = 0

====
